---- MODULE Spec2Model ----
(***************************************************************************)
(* Survey edit form (CreateSurveyForm in edit mode): the working tree      *)
(* `sections`, the diff baseline `originalSectionsSnapshot`, the UI edit   *)
(* handlers, the whole-form save (handleSubmit) and the per-question save  *)
(* (handleSaveCurrentQuestion).                                            *)
(*                                                                         *)
(* Ids are integers: a server id is a small positive number, an absent id  *)
(* (undefined) is NoId, a crypto.randomUUID() client id is ClientBase + n. *)
(* A File-valued field is a BOOLEAN: "the field holds a File instance".    *)
(* An optional nested entry (followUpQuestion) is a sequence of length 0   *)
(* or 1.  Letters A, B, C, ... of choiceOrder are the numbers 0, 1, 2, ... *)
(***************************************************************************)
EXTENDS Integers, Sequences, FiniteSets, TLC

\* ---------------------------------------------------------------- bounds
MaxEdits == 2
MaxSaves == 2

\* saves in flight at once, and requests of saves that are rejected
MaxInFlight == 1

MaxFailed == 1

\* UI actions followed after loading one of FollowUpTrees
MaxLoadEdits == 1

\* UI actions followed while a new section is being drafted, and while a
\* choice is being added to a saved question
MaxDraftEdits == 5
MaxChoiceEdits == 3
MaxReplaceEdits == 4
MaxOrderEdits == 6
MaxOverlap == 2
MaxOverlapEdits == 2

\* ------------------------------------------------------- values and ids
NoId == 0
ClientBase == 100
Undefined == "undefined"
NoImage == Undefined
Texts == {"", "a", "b"}
QuestionTypes == {"TEXT", "RADIO", "CHECKBOX", "GRID"}

isEditMode == TRUE

Trim(s) == IF s = " " THEN "" ELSE s

\* x || undefined, for a string x that may be null, undefined or empty
OrUndefined(x) == IF x = "" THEN Undefined ELSE x

Min(a, b) == IF a < b THEN a ELSE b

RemoveAt(s, i) == SubSeq(s, 1, i - 1) \o SubSeq(s, i + 1, Len(s))

Range(s) == {s[i] : i \in 1..Len(s)}

\* ------------------------------------------------------------ form nodes
Choice(id, cid, order, text) ==
  [id |-> id, clientId |-> cid, choiceOrder |-> order, choiceText |-> text,
   choiceImage |-> NoImage, choiceImageFile |-> FALSE, hasTextInput |-> FALSE,
   hasFollowUp |-> FALSE, followUpQuestion |-> << >>]

emptyChoice(cid, order) == Choice(NoId, cid, order, "")

GridRow(id, n, text) ==
  [id |-> id, rowNumber |-> n, rowText |-> text, rowImage |-> NoImage,
   rowImageFile |-> FALSE]

emptyEntry(cid) ==
  [id |-> NoId, clientId |-> cid, question |-> "", questionType |-> "RADIO",
   isRequired |-> TRUE, hasTextInput |-> FALSE,
   questionImage |-> NoImage, questionImageFile |-> FALSE,
   choices |-> <<emptyChoice(cid + 1, 0), emptyChoice(cid + 2, 1)>>,
   gridRows |-> << >>,
   isFollowUp |-> FALSE,
   parentQuestionClientId |-> NoId, triggerChoiceClientIds |-> {},
   parentQuestionId |-> NoId, triggerChoiceIds |-> {}]

createEmptyFollowUp(cid, parentClientId, triggerChoiceClientId) ==
  [id |-> NoId, clientId |-> cid, question |-> "", questionType |-> "TEXT",
   isRequired |-> FALSE, hasTextInput |-> FALSE,
   questionImage |-> NoImage, questionImageFile |-> FALSE,
   choices |-> << >>, gridRows |-> << >>,
   isFollowUp |-> TRUE,
   parentQuestionClientId |-> parentClientId,
   triggerChoiceClientIds |-> {triggerChoiceClientId},
   parentQuestionId |-> NoId, triggerChoiceIds |-> {}]

\* emptySection(n) with its entries replaced by [emptyEntry(...)], as every
\* caller in the form does; the title is `Section n`.
emptySection(n, cid) ==
  [id |-> NoId, title |-> "a", description |-> "", sectionNumber |-> n,
   entries |-> <<emptyEntry(cid)>>]

getDefaultQuestionFields(questionType, cid) ==
  CASE questionType = "TEXT" ->
         [choices |-> << >>, gridRows |-> << >>]
    [] questionType \in {"RADIO", "CHECKBOX"} ->
         [choices |-> <<emptyChoice(cid, 0), emptyChoice(cid + 1, 1)>>,
          gridRows |-> << >>]
    [] OTHER ->
         [choices |-> <<emptyChoice(cid, 0), emptyChoice(cid + 1, 1)>>,
          gridRows |-> <<GridRow(NoId, 1, ""), GridRow(NoId, 2, "")>>]

\* ------------------------------------------------------ server responses
RespChoice(id, order, text) ==
  [id |-> id, choiceOrder |-> order, choiceText |-> text,
   choiceImageUrl |-> "", hasTextInput |-> FALSE]

RespRow(id, n, text) ==
  [id |-> id, rowNumber |-> n, rowText |-> text, rowImageUrl |-> ""]

RespEntry(id, type, choices, rows) ==
  [id |-> id, question |-> "a", questionImageUrl |-> "",
   questionType |-> type, isRequired |-> TRUE, hasTextInput |-> FALSE,
   choices |-> choices, gridRows |-> rows,
   isFollowUp |-> FALSE, parentQuestionId |-> NoId, triggerChoiceIds |-> {}]

RespFollowUp(id, type, parent, triggers) ==
  [id |-> id, question |-> "a", questionImageUrl |-> "",
   questionType |-> type, isRequired |-> FALSE, hasTextInput |-> FALSE,
   choices |-> << >>, gridRows |-> << >>,
   isFollowUp |-> TRUE, parentQuestionId |-> parent,
   triggerChoiceIds |-> triggers]

RespSection(id, n, entries) ==
  [id |-> id, title |-> "a", description |-> "", sectionNumber |-> n,
   entries |-> entries]

\* One section: a RADIO question with three choices and a TEXT question.
ServerTreeA ==
  <<RespSection(1, 1,
      <<RespEntry(11, "RADIO",
          <<RespChoice(21, 0, "a"), RespChoice(22, 1, "a"),
            RespChoice(23, 2, "a")>>, << >>),
        RespEntry(12, "TEXT", << >>, << >>)>>)>>

\* A RADIO question whose first choice triggers a follow-up, and a second
\* section whose questions have all been deleted.
ServerTreeB ==
  <<RespSection(1, 1,
      <<RespEntry(11, "RADIO",
          <<RespChoice(21, 0, "a"), RespChoice(22, 1, "a")>>, << >>),
        RespFollowUp(13, "TEXT", 11, {21})>>),
    RespSection(2, 2, << >>)>>

\* A GRID question with three rows.
ServerTreeC ==
  <<RespSection(1, 1,
      <<RespEntry(11, "GRID",
          <<RespChoice(21, 0, "a"), RespChoice(22, 1, "a")>>,
          <<RespRow(31, 1, "a"), RespRow(32, 2, "a"), RespRow(33, 3, "a")>>)>>)>>

\* One RADIO question with two choices.
ServerTreeD ==
  <<RespSection(1, 1,
      <<RespEntry(11, "RADIO",
          <<RespChoice(21, 0, "a"), RespChoice(22, 1, "a")>>, << >>)>>)>>

\* One TEXT question.
ServerTreeE ==
  <<RespSection(1, 1, <<RespEntry(11, "TEXT", << >>, << >>)>>)>>

\* A GRID question one of whose column choices triggers a follow-up: what
\* the server holds once question 11 of ServerTreeB has had its type
\* updated to GRID while the delete of its old choice 21 was rejected.
ServerTreeF ==
  <<RespSection(1, 1,
      <<RespEntry(11, "GRID",
          <<RespChoice(21, 0, "a"), RespChoice(22, 1, "a")>>,
          <<RespRow(31, 1, "a"), RespRow(32, 2, "a")>>),
        RespFollowUp(13, "TEXT", 11, {21})>>)>>

ServerTrees == {ServerTreeA, ServerTreeB, ServerTreeC, ServerTreeF}

\* One section with a RADIO question (11: choices 21, 22), a TEXT question
\* (12) and then one or two follow-up entries, each with any parent and any
\* trigger-choice set the response type allows over these ids.
FollowUpLinks == {11, 12} \X (SUBSET {21, 22})

FollowUpTree(links) ==
  <<RespSection(1, 1,
      <<RespEntry(11, "RADIO",
          <<RespChoice(21, 0, "a"), RespChoice(22, 1, "a")>>, << >>),
        RespEntry(12, "TEXT", << >>, << >>)>>
      \o [k \in 1..Len(links) |->
            RespFollowUp(12 + k, "TEXT", links[k][1], links[k][2])])>>

FollowUpTrees ==
  {FollowUpTree(links) :
     links \in {<<a>> : a \in FollowUpLinks}
                \cup {<<a, b>> : a, b \in FollowUpLinks}}

\* the survey the builder is opened on with a focusSection
FocusTree == ServerTreeC

FocusActions == {"none", "add-question", "add-section"}

\* --------------------------------------------- transformResponseToForm
FormRow(r) ==
  [id |-> r.id, rowNumber |-> r.rowNumber, rowText |-> r.rowText,
   rowImage |-> OrUndefined(r.rowImageUrl), rowImageFile |-> FALSE]

FormFollowUp(fu, entry, choice) ==
  [id |-> fu.id, clientId |-> fu.id, question |-> fu.question,
   questionType |-> fu.questionType, isRequired |-> fu.isRequired,
   hasTextInput |-> fu.hasTextInput,
   questionImage |-> OrUndefined(fu.questionImageUrl), questionImageFile |-> FALSE,
   choices |-> [i \in 1..Len(fu.choices) |->
                  [id |-> fu.choices[i].id, clientId |-> fu.choices[i].id,
                   choiceOrder |-> fu.choices[i].choiceOrder,
                   choiceText |-> fu.choices[i].choiceText,
                   choiceImage |-> OrUndefined(fu.choices[i].choiceImageUrl),
                   choiceImageFile |-> FALSE,
                   hasTextInput |-> fu.choices[i].hasTextInput,
                   hasFollowUp |-> FALSE, followUpQuestion |-> << >>]],
   gridRows |-> [i \in 1..Len(fu.gridRows) |-> FormRow(fu.gridRows[i])],
   isFollowUp |-> TRUE,
   parentQuestionClientId |-> entry.id,
   triggerChoiceClientIds |-> {choice.id},
   parentQuestionId |-> fu.parentQuestionId,
   triggerChoiceIds |-> fu.triggerChoiceIds]

\* (a choice mapping that nests the last relevant follow-up)
FormChoiceLast(choice, entry, followUpEntries) ==
  LET relevantFollowUps ==
        SelectSeq(followUpEntries,
                  LAMBDA fu : fu.parentQuestionId = entry.id
                              /\ choice.id \in fu.triggerChoiceIds)
  IN [id |-> choice.id, clientId |-> choice.id,
      choiceOrder |-> choice.choiceOrder, choiceText |-> choice.choiceText,
      choiceImage |-> OrUndefined(choice.choiceImageUrl), choiceImageFile |-> FALSE,
      hasTextInput |-> choice.hasTextInput,
      hasFollowUp |-> Len(relevantFollowUps) > 0,
      followUpQuestion |->
        IF Len(relevantFollowUps) > 0
        THEN <<FormFollowUp(relevantFollowUps[Len(relevantFollowUps)],
                            entry, choice)>>
        ELSE << >>]

FormChoice(choice, entry, followUpEntries) ==
  LET relevantFollowUps ==
        SelectSeq(followUpEntries,
                  LAMBDA fu : fu.parentQuestionId = entry.id
                              /\ choice.id \in fu.triggerChoiceIds)
  IN [id |-> choice.id, clientId |-> choice.id,
      choiceOrder |-> choice.choiceOrder, choiceText |-> choice.choiceText,
      choiceImage |-> OrUndefined(choice.choiceImageUrl), choiceImageFile |-> FALSE,
      hasTextInput |-> choice.hasTextInput,
      hasFollowUp |-> Len(relevantFollowUps) > 0,
      followUpQuestion |->
        IF Len(relevantFollowUps) > 0
        THEN <<FormFollowUp(relevantFollowUps[1], entry, choice)>>
        ELSE << >>]

FormEntry(entry, followUpEntries) ==
  [id |-> entry.id, clientId |-> entry.id, question |-> entry.question,
   questionType |-> entry.questionType, isRequired |-> entry.isRequired,
   hasTextInput |-> entry.hasTextInput,
   questionImage |-> OrUndefined(entry.questionImageUrl), questionImageFile |-> FALSE,
   choices |-> [i \in 1..Len(entry.choices) |->
                  FormChoice(entry.choices[i], entry, followUpEntries)],
   gridRows |-> [i \in 1..Len(entry.gridRows) |-> FormRow(entry.gridRows[i])],
   isFollowUp |-> FALSE,
   parentQuestionClientId |-> NoId, triggerChoiceClientIds |-> {},
   parentQuestionId |-> NoId, triggerChoiceIds |-> {}]

transformResponseToForm(response) ==
  [s \in 1..Len(response) |->
     LET section == response[s]
         mainEntries == SelectSeq(section.entries, LAMBDA e : ~e.isFollowUp)
         followUpEntries == SelectSeq(section.entries, LAMBDA e : e.isFollowUp)
     IN [id |-> section.id, title |-> section.title,
         description |-> OrUndefined(section.description),
         sectionNumber |-> section.sectionNumber,
         entries |-> [i \in 1..Len(mainEntries) |->
                        FormEntry(mainEntries[i], followUpEntries)]]]

\* ------------------------------------- JSON.parse(JSON.stringify(tree))
\* Strings, numbers, booleans and arrays survive; a File becomes the plain
\* object {}, which is no longer a File instance.
JsonChoice0(c) == [c EXCEPT !.choiceImageFile = FALSE]

JsonRow(r) == [r EXCEPT !.rowImageFile = FALSE]

JsonFollowUp(e) ==
  [e EXCEPT !.questionImageFile = FALSE,
            !.choices = [i \in 1..Len(e.choices) |-> JsonChoice0(e.choices[i])],
            !.gridRows = [i \in 1..Len(e.gridRows) |-> JsonRow(e.gridRows[i])]]

JsonChoice(c) ==
  [c EXCEPT !.choiceImageFile = FALSE,
            !.followUpQuestion =
               [i \in 1..Len(c.followUpQuestion) |->
                  JsonFollowUp(c.followUpQuestion[i])]]

JsonEntry(e) ==
  [e EXCEPT !.questionImageFile = FALSE,
            !.choices = [i \in 1..Len(e.choices) |-> JsonChoice(e.choices[i])],
            !.gridRows = [i \in 1..Len(e.gridRows) |-> JsonRow(e.gridRows[i])]]

JsonCopy(tree) ==
  [s \in 1..Len(tree) |->
     [tree[s] EXCEPT !.entries =
        [i \in 1..Len(tree[s].entries) |-> JsonEntry(tree[s].entries[i])]]]

\* ----------------------------------------------------------- validation
validateSurveyEntry(entry) ==
  /\ Trim(entry.question) # ""
  /\ entry.questionType \in {"RADIO", "CHECKBOX"} =>
       /\ Len(entry.choices) >= 2
       /\ \A i \in 1..Len(entry.choices) :
            ~ ( /\ Trim(entry.choices[i].choiceText) = ""
                /\ entry.choices[i].choiceImage = Undefined
                /\ ~entry.choices[i].choiceImageFile )
  /\ entry.questionType = "GRID" =>
       /\ Len(entry.choices) >= 2
       /\ Len(entry.gridRows) >= 2
  /\ entry.isFollowUp =>
       /\ ~ (entry.parentQuestionClientId = NoId /\ entry.parentQuestionId = NoId)
       /\ ~ (entry.triggerChoiceClientIds = {} /\ entry.triggerChoiceIds = {})

\* validateForm, for a survey whose name is set (edit mode loads the name)
validateForm(secs) ==
  /\ Len(secs) # 0
  /\ \A si \in 1..Len(secs) :
       /\ Trim(secs[si].title) # ""
       /\ Len(secs[si].entries) # 0
       /\ \A qi \in 1..Len(secs[si].entries) :
            LET question == secs[si].entries[qi]
            IN /\ validateSurveyEntry(question)
               /\ \A ci \in 1..Len(question.choices) :
                    LET choice == question.choices[ci]
                    IN (choice.hasFollowUp /\ Len(choice.followUpQuestion) > 0)
                         => validateSurveyEntry(choice.followUpQuestion[1])

\* ----------------------------------------------------- change detection
hasEntryChanged(current, original) ==
  \/ current.question # original.question
  \/ current.questionType # original.questionType
  \/ current.isRequired # original.isRequired
  \/ current.hasTextInput # original.hasTextInput
  \/ current.questionImageFile
  \/ current.questionImage # original.questionImage

hasChoiceChanged(current, original) ==
  \/ current.choiceText # original.choiceText
  \/ current.choiceOrder # original.choiceOrder
  \/ current.hasTextInput # original.hasTextInput
  \/ current.choiceImageFile
  \/ current.choiceImage # original.choiceImage

hasGridRowChanged(current, original) ==
  \/ current.rowText # original.rowText
  \/ current.rowNumber # original.rowNumber
  \/ current.rowImageFile
  \/ current.rowImage # original.rowImage

hasSectionChanged(current, original) ==
  current.title # original.title \/ current.description # original.description

\* --------------------------------------------------------- API requests
\* k: the endpoint; t: the node the request is about (server id for update
\* and delete, client id for create, -(10 * entry id + index) for a grid
\* row, which has no client id); e: the id of the owner the request is
\* addressed to; n: what the request adds to totalChanges.
\* r: for a follow-up create, the id family of its parent/trigger reference.
OpRef(k, t, e, n, r) == [k |-> k, t |-> t, e |-> e, n |-> n, r |-> r]

Op(k, t, e, n) == OpRef(k, t, e, n, "-")

CreateKinds == {"addSectionsBulk", "addEntry", "addChoice", "addGridRow",
                "addFollowUp"}
DeleteKinds == {"deleteChoice", "deleteGridRow"}

\* ------------------------------------------------- update requests
\* the data object both saves hand to updateSurveyEntry
UpdateEntryData(entry) ==
  [question |-> entry.question, questionType |-> entry.questionType,
   isRequired |-> entry.isRequired,
   questionImageFile |-> entry.questionImageFile]

\* the form fields useUpdateSurveyEntry appends for `data`
UpdateEntryFormData(data) ==
  {"question", "questionType", "isRequired"}
    \cup (IF data.questionImageFile THEN {"questionImage"} ELSE {})

\* the data object both saves hand to updateChoice
UpdateChoiceData(choice) ==
  [choiceOrder |-> choice.choiceOrder, choiceText |-> choice.choiceText,
   choiceImageFile |-> choice.choiceImageFile,
   hasTextInput |-> choice.hasTextInput]

\* the form fields useUpdateChoice appends for `data`
UpdateChoiceFormData(data) ==
  {"choiceOrder", "choiceText", "hasTextInput"}
    \cup (IF data.choiceImageFile THEN {"choiceImage"} ELSE {})

\* ------------------------------------------- handleSubmit, edit mode
SubmitSectionOps(secs, snap) ==
  {Op("updateSection", secs[si].id, NoId, 1) :
     si \in {i \in 1..Min(Len(secs), Len(snap)) :
               secs[i].id # NoId /\ hasSectionChanged(secs[i], snap[i])}}

\* the (section, question) positions the entry loop visits and does not skip
SubmitPairs(secs, snap) ==
  UNION {
    {<<si, qi>> :
       qi \in {q \in 1..Min(Len(secs[si].entries), Len(snap[si].entries)) :
                 secs[si].entries[q].id # NoId}}
    : si \in 1..Min(Len(secs), Len(snap))}

SubmitEntryOps(secs, snap) ==
  {Op("updateEntry", secs[p[1]].entries[p[2]].id, NoId, 1) :
     p \in {q \in SubmitPairs(secs, snap) :
              hasEntryChanged(secs[q[1]].entries[q[2]],
                              snap[q[1]].entries[q[2]])}}

SubmitChoiceOps(secs, snap) ==
  UNION {
    LET currentEntry == secs[p[1]].entries[p[2]]
        originalEntry == snap[p[1]].entries[p[2]]
    IN {Op("updateChoice", currentEntry.choices[ci].id, currentEntry.id, 1) :
          ci \in {c \in 1..Min(Len(currentEntry.choices),
                               Len(originalEntry.choices)) :
                    /\ currentEntry.choices[c].id # NoId
                    /\ hasChoiceChanged(currentEntry.choices[c],
                                        originalEntry.choices[c])}}
    : p \in SubmitPairs(secs, snap)}

SubmitGridRowOps(secs, snap) ==
  UNION {
    LET currentEntry == secs[p[1]].entries[p[2]]
        originalEntry == snap[p[1]].entries[p[2]]
    IN IF currentEntry.questionType = "GRID"
       THEN {Op("updateGridRow", currentEntry.gridRows[ri].id,
                currentEntry.id, 1) :
               ri \in {r \in 1..Min(Len(currentEntry.gridRows),
                                    Len(originalEntry.gridRows)) :
                         /\ currentEntry.gridRows[r].id # NoId
                         /\ hasGridRowChanged(currentEntry.gridRows[r],
                                              originalEntry.gridRows[r])}}
       ELSE {}
    : p \in SubmitPairs(secs, snap)}

SubmitBulkOps(secs, count) ==
  IF Len(secs) > count
  THEN {Op("addSectionsBulk", -(count + 1), NoId, Len(secs) - count)}
  ELSE {}

QuestionCountAt(qcounts, i) == IF i <= Len(qcounts) THEN qcounts[i] ELSE 0

SubmitNewEntryOps(secs, count, qcounts) ==
  UNION {
    IF Len(secs[i].entries) > QuestionCountAt(qcounts, i) /\ secs[i].id # NoId
    THEN {Op("addEntry", secs[i].entries[q].clientId, secs[i].id, 1) :
            q \in (QuestionCountAt(qcounts, i) + 1)..Len(secs[i].entries)}
    ELSE {}
    : i \in 1..Min(count, Len(secs))}

SubmitOps(secs, snap, count, qcounts) ==
  SubmitSectionOps(secs, snap) \cup SubmitEntryOps(secs, snap)
    \cup SubmitChoiceOps(secs, snap) \cup SubmitGridRowOps(secs, snap)
    \cup SubmitBulkOps(secs, count)
    \cup SubmitNewEntryOps(secs, count, qcounts)

\* totalChanges / successCount / failureCount of a set of requests
Changes(ops) ==
  Cardinality({o \in ops : o.k # "addSectionsBulk"})
    + (IF \E o \in ops : o.k = "addSectionsBulk"
       THEN (CHOOSE o \in ops : o.k = "addSectionsBulk").n ELSE 0)

SubmitToast(ops, failed) ==
  IF Changes(ops) = 0 THEN "No changes to save"
  ELSE IF Changes(failed) = 0 THEN "All changes saved successfully"
  ELSE IF Changes(ops \ failed) > 0 THEN "changes saved, some failed"
  ELSE "Failed to save changes"

\* --------------------------------- handleSaveCurrentQuestion, wave 1
\* originalSeq is << >> when the snapshot has no entry at the position
QuestionEntryOps(currentEntry, originalSeq) ==
  IF Len(originalSeq) > 0 /\ hasEntryChanged(currentEntry, originalSeq[1])
  THEN {Op("updateEntry", currentEntry.id, NoId, 1)} ELSE {}

OriginalChoices(originalSeq) ==
  IF Len(originalSeq) > 0 THEN originalSeq[1].choices ELSE << >>

OriginalGridRows(originalSeq) ==
  IF Len(originalSeq) > 0 THEN originalSeq[1].gridRows ELSE << >>

QuestionDeleteChoiceOps(currentEntry, originalSeq) ==
  LET currentChoiceIds == {c.id : c \in Range(currentEntry.choices)} \ {NoId}
  IN {Op("deleteChoice", oc.id, currentEntry.id, 1) :
        oc \in {c \in Range(OriginalChoices(originalSeq)) :
                  c.id # NoId /\ c.id \notin currentChoiceIds}}

QuestionChoiceOps(currentEntry, originalSeq) ==
  UNION {
    LET choice == currentEntry.choices[ci]
        found == SelectSeq(OriginalChoices(originalSeq),
                           LAMBDA oc : oc.id = choice.id)
    IN IF choice.id = NoId
       THEN {Op("addChoice", choice.clientId, currentEntry.id, 1)}
       ELSE IF Len(found) > 0 /\ hasChoiceChanged(choice, found[1])
       THEN {Op("updateChoice", choice.id, currentEntry.id, 1)}
       ELSE {}
    : ci \in 1..Len(currentEntry.choices)}

QuestionDeleteGridRowOps(currentEntry, originalSeq) ==
  LET currentGridRowIds == {r.id : r \in Range(currentEntry.gridRows)} \ {NoId}
  IN {Op("deleteGridRow", orow.id, currentEntry.id, 1) :
        orow \in {r \in Range(OriginalGridRows(originalSeq)) :
                    r.id # NoId /\ r.id \notin currentGridRowIds}}

QuestionGridRowOps(currentEntry, originalSeq) ==
  UNION {
    LET row == currentEntry.gridRows[ri]
        found == SelectSeq(OriginalGridRows(originalSeq),
                           LAMBDA orow : orow.id = row.id)
    IN IF row.id = NoId
       THEN {Op("addGridRow", -(10 * currentEntry.id + ri), currentEntry.id, 1)}
       ELSE IF Len(found) > 0 /\ hasGridRowChanged(row, found[1])
       THEN {Op("updateGridRow", row.id, currentEntry.id, 1)}
       ELSE {}
    : ri \in 1..Len(currentEntry.gridRows)}

QuestionWave1Ops(currentEntry, originalSeq) ==
  QuestionEntryOps(currentEntry, originalSeq)
    \cup QuestionDeleteChoiceOps(currentEntry, originalSeq)
    \cup QuestionChoiceOps(currentEntry, originalSeq)
    \cup QuestionDeleteGridRowOps(currentEntry, originalSeq)
    \cup QuestionGridRowOps(currentEntry, originalSeq)

\* (call sites that swallow the rejection of a choice create as well)
SwallowedWithChoiceCreates(op) ==
  op.k \in DeleteKinds \cup {"addFollowUp", "addChoice"}

\* the requests whose rejection is swallowed by a .catch at the call site
Swallowed(op) == op.k \in DeleteKinds \cup {"addFollowUp"}

\* --------------------------- handleSaveCurrentQuestion, follow-up wave
QuestionFollowUpOps(currentEntry) ==
  UNION {
    LET choice == currentEntry.choices[ci]
    IN IF choice.hasFollowUp /\ Len(choice.followUpQuestion) > 0
       THEN LET followUp == choice.followUpQuestion[1]
            IN IF followUp.id = NoId /\ choice.id # NoId
                  /\ currentEntry.id # NoId
               THEN {OpRef("addFollowUp", followUp.clientId, choice.id, 1,
                           "id")}
               ELSE IF followUp.id = NoId /\ choice.id = NoId
               THEN {OpRef("addFollowUp", followUp.clientId, choice.clientId,
                           1, "clientId")}
               ELSE {}
       ELSE {}
    : ci \in 1..Len(currentEntry.choices)}

\* the snapshot handleSaveCurrentQuestion installs after a successful run
QuestionSnapshot(snap, si, qi, currentEntry) ==
  LET newSnapshot == JsonCopy(snap)
  IN IF si <= Len(newSnapshot) /\ qi <= Len(newSnapshot[si].entries)
     THEN [newSnapshot EXCEPT ![si].entries[qi] = JsonEntry(currentEntry)]
     ELSE newSnapshot

\* ---------------------------------------------------------------- state
VARIABLES
  sections,                  \* the working tree (useState sections)
  originalSectionsSnapshot,  \* the diff baseline
  originalSectionsCount,
  originalQuestionCounts,
  isSavingCurrentQuestion,
  jobs,                      \* saves whose requests are in flight
  report,                    \* outcome of the save that completed last
  prevReport,                \* outcome of the save that completed before it
  nextId,                    \* client ids handed out so far
  edits,                     \* UI actions performed so far
  saves,                     \* saves started so far
  finished,                  \* saves completed so far
  rejected,                  \* requests of saves rejected so far
  loadedIds,                 \* server ids of the tree that was loaded
  response,                  \* the survey detail response that was loaded
  editLimit,                 \* UI actions the session is followed for
  flightLimit,               \* saves the session is followed in flight at once
  deletedIds,                \* server ids whose delete request succeeded
  unlinkedIds,               \* follow-up ids whose unlink request succeeded
  createdOnce,               \* client ids carried by a successful create
  createdTwice               \* ... by more than one successful create

vars == <<sections, originalSectionsSnapshot, originalSectionsCount,
          originalQuestionCounts, isSavingCurrentQuestion, jobs, report,
          prevReport, nextId, edits, saves, finished, rejected, loadedIds,
          response, editLimit, flightLimit, deletedIds, unlinkedIds, createdOnce,
          createdTwice>>

formVars == <<sections, originalSectionsSnapshot, originalSectionsCount,
              originalQuestionCounts>>

saveVars == <<isSavingCurrentQuestion, jobs, report, prevReport, saves,
              finished, rejected, createdOnce, createdTwice>>

\* fixed once the response has been loaded
loadVars == <<loadedIds, response, editLimit, flightLimit>>

\* ------------------------------------------------------ ids in a tree
FollowUpIds(e) ==
  {e.id} \cup {c.id : c \in Range(e.choices)}
         \cup {r.id : r \in Range(e.gridRows)}

ChoiceIds(c) ==
  {c.id} \cup UNION {FollowUpIds(f) : f \in Range(c.followUpQuestion)}

EntryIds(e) ==
  ({e.id} \cup UNION {ChoiceIds(c) : c \in Range(e.choices)}
          \cup {r.id : r \in Range(e.gridRows)}) \ {NoId}

SectionIds(sec) ==
  ({sec.id} \cup UNION {EntryIds(e) : e \in Range(sec.entries)}) \ {NoId}

TreeIds(secs) == UNION {SectionIds(sec) : sec \in Range(secs)}

FollowUpClientIds(e) == {e.clientId} \cup {c.clientId : c \in Range(e.choices)}

\* client ids an entry's create payload carries: the entry and its choices
EntryClientIds(e) == {e.clientId} \cup {c.clientId : c \in Range(e.choices)}

\* client ids flattenEntriesForPayload carries for a section's entries
FlattenClientIds(entries) ==
  UNION {EntryClientIds(e)
           \cup UNION {IF c.hasFollowUp /\ Len(c.followUpQuestion) > 0
                       THEN FollowUpClientIds(c.followUpQuestion[1]) ELSE {}
                       : c \in Range(e.choices)}
         : e \in Range(entries)}

\* ------------------------------------------- flattenEntriesForPayload
\* choiceOrder || String.fromCharCode(65 + ci): every choice the form
\* builds has a choiceOrder letter, so the fallback is never taken
PayloadChoice(c) ==
  [clientId |-> c.clientId, choiceOrder |-> c.choiceOrder,
   choiceText |-> c.choiceText, choiceImage |-> c.choiceImage,
   choiceImageFile |-> c.choiceImageFile]

PayloadRow(r, ri) ==
  [rowNumber |-> IF r.rowNumber = 0 THEN ri ELSE r.rowNumber,
   rowText |-> r.rowText, rowImage |-> r.rowImage,
   rowImageFile |-> r.rowImageFile]

PayloadEntry(e, questionNumber, isFollowUp, parentClientId, triggerClientIds) ==
  [clientId |-> e.clientId, question |-> e.question,
   questionNumber |-> questionNumber, questionImage |-> e.questionImage,
   questionImageFile |-> e.questionImageFile,
   questionType |-> e.questionType, isRequired |-> e.isRequired,
   hasTextInput |-> e.hasTextInput,
   choices |-> [ci \in 1..Len(e.choices) |-> PayloadChoice(e.choices[ci])],
   gridRows |-> [ri \in 1..Len(e.gridRows) |-> PayloadRow(e.gridRows[ri], ri)],
   isFollowUp |-> isFollowUp,
   parentQuestionClientId |-> parentClientId,
   triggerChoiceClientIds |-> triggerClientIds]

\* (a flattening that pushes the main questions only)
RECURSIVE flattenMainEntriesOnly(_)
flattenMainEntriesOnly(entries) ==
  IF entries = << >> THEN << >>
  ELSE LET result == flattenMainEntriesOnly(SubSeq(entries, 1, Len(entries) - 1))
           entry == entries[Len(entries)]
       IN Append(result, PayloadEntry(entry, Len(result) + 1, FALSE, NoId, {}))

\* result after the forEach has visited the entries in order: each main
\* question, then the follow-ups of its choices in choice order
RECURSIVE flattenEntriesForPayload(_)
flattenEntriesForPayload(entries) ==
  IF entries = << >> THEN << >>
  ELSE LET result == flattenEntriesForPayload(SubSeq(entries, 1, Len(entries) - 1))
           entry == entries[Len(entries)]
           triggers == SelectSeq(entry.choices,
                         LAMBDA c : c.hasFollowUp /\ Len(c.followUpQuestion) > 0)
       IN Append(result, PayloadEntry(entry, Len(result) + 1, FALSE, NoId, {}))
            \o [i \in 1..Len(triggers) |->
                  PayloadEntry(triggers[i].followUpQuestion[1],
                               Len(result) + 1 + i, TRUE, entry.clientId,
                               {triggers[i].clientId})]

\* bulkPayload of handleSubmit
BulkPayload(secs, count) ==
  [idx \in 1..(Len(secs) - count) |->
     [title |-> secs[count + idx].title,
      description |-> secs[count + idx].description,
      sectionNumber |-> count + idx,
      entries |-> flattenEntriesForPayload(secs[count + idx].entries)]]

AllEntries(secs) == UNION {Range(sec.entries) : sec \in Range(secs)}

AllFollowUps(secs) ==
  UNION {UNION {Range(c.followUpQuestion) : c \in Range(e.choices)}
         : e \in AllEntries(secs)}

\* the client ids of the new nodes a successful request has created
Carried(op, secs, count) ==
  CASE op.k = "addSectionsBulk" ->
         UNION {FlattenClientIds(secs[i].entries) : i \in (count + 1)..Len(secs)}
    [] op.k = "addEntry" ->
         UNION {EntryClientIds(e) : e \in {x \in AllEntries(secs) :
                                            x.clientId = op.t}}
    [] op.k = "addFollowUp" ->
         UNION {FollowUpClientIds(f) : f \in {x \in AllFollowUps(secs) :
                                               x.clientId = op.t}}
    [] op.k \in {"addChoice", "addGridRow"} -> {op.t}
    [] OTHER -> {}

\* ----------------------------------------------------------------- jobs
Job(kind, si, qi, pc, ops) ==
  [kind |-> kind, si |-> si, qi |-> qi, pc |-> pc, ops |-> ops,
   ops1 |-> {}, failed1 |-> {},
   secs |-> sections, snap |-> originalSectionsSnapshot,
   count |-> originalSectionsCount, qcounts |-> originalQuestionCounts,
   e0 |-> edits, seq0 |-> finished]

\* (a result handler that reads the working tree of the latest render)
LatestSections(job) == sections

\* `sections` as the result handling of a save reads it: the handler is a
\* closure of the render it was invoked in, so it is the tree the save
\* started with
ClosureSections(job) == job.secs

Report(job, toast, issued, failed, skipped) ==
  [kind |-> job.kind, si |-> job.si, qi |-> job.qi, toast |-> toast,
   issued |-> issued, failed |-> failed, skipped |-> skipped,
   e0 |-> job.e0, e1 |-> edits, seq0 |-> job.seq0, seq1 |-> finished]

NoReport ==
  [kind |-> "none", si |-> 0, qi |-> 0, toast |-> "", issued |-> {},
   failed |-> {}, skipped |-> {},
   e0 |-> 0, e1 |-> 0, seq0 |-> 0, seq1 |-> 0]

Complete(rep) ==
  /\ prevReport' = report
  /\ report' = rep
  /\ finished' = finished + 1

ServerEffects(job, succeeded) ==
  LET new == UNION {Carried(o, job.secs, job.count) : o \in succeeded}
  IN /\ rejected' = rejected + Cardinality(job.ops \ succeeded)
     /\ createdTwice' = createdTwice \cup (new \cap createdOnce)
     /\ createdOnce' = createdOnce \cup new
     /\ deletedIds' = deletedIds \cup
                        {o.t : o \in {x \in succeeded : x.k \in DeleteKinds}}

\* ----------------------------------------------------------------- load
\* The load effect of CreateSurveyForm, run once on the first response.
\* (a load effect that records no question counts)
LoadQuestionCountsUnrecorded(loadedSections) ==
  [i \in 1..Len(loadedSections) |-> 0]

LoadQuestionCounts(loadedSections) ==
  [i \in 1..Len(loadedSections) |-> Len(loadedSections[i].entries)]

FocusedSections(loadedSections, focus, target) ==
  CASE focus = "add-question" ->
         [loadedSections EXCEPT ![target].entries =
            Append(@, emptyEntry(ClientBase + 1))]
    [] focus = "add-section" ->
         Append(loadedSections,
                emptySection(Len(loadedSections) + 1, ClientBase + 1))
    [] OTHER -> loadedSections

\* the load effect on `resp`, opened with focusSection `focus` on the
\* section at position `target`
Load(resp, focus, target, limit) ==
  LET loadedSections == transformResponseToForm(resp)
  IN /\ response = resp
     /\ editLimit = limit
     /\ originalSectionsCount = Len(loadedSections)
     /\ originalQuestionCounts = LoadQuestionCounts(loadedSections)
     /\ originalSectionsSnapshot = JsonCopy(loadedSections)
     /\ sections = FocusedSections(loadedSections, focus, target)
     /\ nextId = IF focus = "none" THEN 0 ELSE 3
     /\ loadedIds = TreeIds(loadedSections)

\* the useState initial values, and nothing requested of the server yet
Mounted ==
  /\ isSavingCurrentQuestion = FALSE
  /\ jobs = << >>
  /\ report = NoReport
  /\ prevReport = NoReport
  /\ edits = 0
  /\ saves = 0
  /\ finished = 0
  /\ rejected = 0
  /\ deletedIds = {}
  /\ unlinkedIds = {}
  /\ createdOnce = {}
  /\ createdTwice = {}

Init ==
  /\ \/ \E resp \in ServerTrees, focus \in FocusActions :
          \E target \in 1..Len(resp) :
            /\ focus # "add-question" => target = 1
            /\ focus # "none" => resp = FocusTree
            /\ Load(resp, focus, target, MaxEdits)
     \/ \E resp \in FollowUpTrees : Load(resp, "none", 1, MaxLoadEdits)
  /\ flightLimit = MaxInFlight
  /\ Mounted

\* ------------------------------------------------- whole-form save
\* The Save Changes button is disabled while the bulk mutation is pending.
isAddingSection ==
  \E j \in 1..Len(jobs) : \E o \in jobs[j].ops : o.k = "addSectionsBulk"

\* handleSubmit stopped by validateForm
SubmitRejected ==
  /\ saves < MaxSaves
  /\ ~isAddingSection
  /\ ~validateForm(sections)
  /\ saves' = saves + 1
  /\ Complete(Report(Job("form", 0, 0, "done", {}), "validation", {}, {}, {}))
  /\ UNCHANGED <<formVars, isSavingCurrentQuestion, jobs, nextId, edits,
                 loadVars, deletedIds, unlinkedIds, createdOnce, createdTwice,
                 rejected>>

\* handleSubmit up to `await Promise.all(pendingPromises)`; with nothing
\* pending it runs on to the result handling in the same step.
SubmitStart ==
  /\ saves < MaxSaves
  /\ Len(jobs) < flightLimit
  /\ ~isAddingSection
  /\ validateForm(sections)
  /\ saves' = saves + 1
  /\ LET ops == SubmitOps(sections, originalSectionsSnapshot,
                          originalSectionsCount, originalQuestionCounts)
         job == Job("form", 0, 0, "submit", ops)
     IN IF ops = {}
        THEN /\ Complete(Report(job, SubmitToast({}, {}), {}, {}, {}))
             /\ jobs' = jobs
        ELSE /\ jobs' = Append(jobs, job)
             /\ UNCHANGED <<report, prevReport, finished>>
  /\ UNCHANGED <<formVars, isSavingCurrentQuestion, nextId, edits, loadVars,
                 deletedIds, unlinkedIds, createdOnce, createdTwice, rejected>>

\* every request of a whole-form save has settled: the result handling
SubmitSettle(j, failed) ==
  /\ j \in 1..Len(jobs)
  /\ jobs[j].kind = "form"
  /\ failed \subseteq jobs[j].ops
  /\ LET job == jobs[j]
         toast == SubmitToast(job.ops, failed)
     IN /\ IF toast = "All changes saved successfully"
           THEN /\ originalSectionsSnapshot' = JsonCopy(ClosureSections(job))
                /\ originalSectionsCount' = Len(ClosureSections(job))
                /\ originalQuestionCounts' =
                     [i \in 1..Len(ClosureSections(job)) |->
                        Len(ClosureSections(job)[i].entries)]
           ELSE UNCHANGED <<originalSectionsSnapshot, originalSectionsCount,
                            originalQuestionCounts>>
        /\ ServerEffects(job, job.ops \ failed)
        /\ Complete(Report(job, toast, job.ops, failed, {}))
  /\ jobs' = RemoveAt(jobs, j)
  /\ UNCHANGED <<sections, isSavingCurrentQuestion, nextId, edits, saves,
                 loadVars, unlinkedIds>>

\* ------------------------------------------------- per-question save
\* The Save button of the question editor exists only for a question that
\* has a server id, and is disabled while isSavingQuestion.
CanSaveQuestion(si, qi) ==
  /\ si \in 1..Len(sections)
  /\ qi \in 1..Len(sections[si].entries)
  /\ sections[si].entries[qi].id # NoId
  /\ ~isSavingCurrentQuestion

OriginalEntrySeq(snap, si, qi) ==
  IF si <= Len(snap) /\ qi <= Len(snap[si].entries)
  THEN <<snap[si].entries[qi]>> ELSE << >>

\* handleSaveCurrentQuestion stopped by validateSurveyEntry
SaveQuestionRejected(si, qi) ==
  /\ saves < MaxSaves
  /\ CanSaveQuestion(si, qi)
  /\ ~validateSurveyEntry(sections[si].entries[qi])
  /\ saves' = saves + 1
  /\ Complete(Report(Job("question", si, qi, "done", {}), "validation",
                     {}, {}, {}))
  /\ UNCHANGED <<formVars, isSavingCurrentQuestion, jobs, nextId, edits,
                 loadVars, deletedIds, unlinkedIds, createdOnce, createdTwice,
                 rejected>>

\* the result handling of handleSaveCurrentQuestion, and its finally block
QuestionFinish(job, issued, failed) ==
  /\ IF issued # {}
     THEN /\ originalSectionsSnapshot' =
               QuestionSnapshot(job.snap, job.si, job.qi,
                                ClosureSections(job)[job.si].entries[job.qi])
          /\ Complete(Report(job, "Question saved successfully!", issued,
                             failed, {}))
     ELSE /\ originalSectionsSnapshot' = originalSectionsSnapshot
          /\ Complete(Report(job, "No changes to save", issued, failed, {}))
  /\ isSavingCurrentQuestion' = FALSE

\* handleSaveCurrentQuestion up to the first await on requests in flight:
\* `await Promise.all(promises)`, or with no promises the follow-up wave,
\* or with no request at all the result handling in the same step
SaveQuestionStart(si, qi) ==
  /\ saves < MaxSaves
  /\ Len(jobs) < flightLimit
  /\ CanSaveQuestion(si, qi)
  /\ validateSurveyEntry(sections[si].entries[qi])
  /\ saves' = saves + 1
  /\ LET currentEntry == sections[si].entries[qi]
         ops == QuestionWave1Ops(currentEntry,
                  OriginalEntrySeq(originalSectionsSnapshot, si, qi))
         followUpOps == QuestionFollowUpOps(currentEntry)
     IN IF ops # {}
        THEN /\ jobs' = Append(jobs, Job("question", si, qi, "wave1", ops))
             /\ isSavingCurrentQuestion' = TRUE
             /\ UNCHANGED <<originalSectionsSnapshot, report, prevReport,
                            finished>>
        ELSE IF followUpOps # {}
        THEN /\ jobs' = Append(jobs,
                               Job("question", si, qi, "wave2", followUpOps))
             /\ isSavingCurrentQuestion' = TRUE
             /\ UNCHANGED <<originalSectionsSnapshot, report, prevReport,
                            finished>>
        ELSE /\ QuestionFinish(Job("question", si, qi, "done", {}), {}, {})
             /\ jobs' = jobs
  /\ UNCHANGED <<sections, originalSectionsCount, originalQuestionCounts,
                 nextId, edits, loadVars, deletedIds, unlinkedIds,
                 createdOnce, createdTwice, rejected>>

\* wave 1 has settled: a rejected request that is not swallowed throws out
\* of the try block; otherwise the follow-up creates are issued, and with
\* none to issue the handler runs on to its result handling.
SaveQuestionWave1Settle(j, failed) ==
  /\ j \in 1..Len(jobs)
  /\ jobs[j].kind = "question" /\ jobs[j].pc = "wave1"
  /\ failed \subseteq jobs[j].ops
  /\ LET job == jobs[j]
         currentEntry == job.secs[job.si].entries[job.qi]
         followUpOps == QuestionFollowUpOps(currentEntry)
     IN /\ ServerEffects(job, job.ops \ failed)
        /\ IF \E o \in failed : ~Swallowed(o)
           THEN /\ Complete(Report(job, "Failed to save question changes",
                                   job.ops, failed, followUpOps))
                /\ isSavingCurrentQuestion' = FALSE
                /\ jobs' = RemoveAt(jobs, j)
                /\ UNCHANGED originalSectionsSnapshot
           ELSE IF followUpOps # {}
           THEN /\ jobs' = [jobs EXCEPT ![j].pc = "wave2",
                                        ![j].ops = followUpOps,
                                        ![j].ops1 = job.ops,
                                        ![j].failed1 = failed]
                /\ UNCHANGED <<originalSectionsSnapshot, report, prevReport,
                               finished, isSavingCurrentQuestion>>
           ELSE /\ QuestionFinish(job, job.ops, failed)
                /\ jobs' = RemoveAt(jobs, j)
  /\ UNCHANGED <<sections, originalSectionsCount, originalQuestionCounts,
                 nextId, edits, saves, loadVars, unlinkedIds>>

\* the follow-up wave has settled; every rejection in it is swallowed
SaveQuestionWave2Settle(j, failed) ==
  /\ j \in 1..Len(jobs)
  /\ jobs[j].kind = "question" /\ jobs[j].pc = "wave2"
  /\ failed \subseteq jobs[j].ops
  /\ LET job == jobs[j]
     IN /\ ServerEffects(job, job.ops \ failed)
        /\ QuestionFinish(job, job.ops1 \cup job.ops,
                          job.failed1 \cup failed)
  /\ jobs' = RemoveAt(jobs, j)
  /\ UNCHANGED <<sections, originalSectionsCount, originalQuestionCounts,
                 nextId, edits, saves, loadVars, unlinkedIds>>

\* ------------------------------------------------------------ UI edits
Fresh(n) == ClientBase + nextId + n

\* a UI action: the working tree, the client-id supply and the server-side
\* removals it leaves behind; no UI action touches the snapshot or a save
Edit(secs, ids, deleted, unlinked) ==
  /\ edits < editLimit
  /\ edits' = edits + 1
  /\ sections' = secs
  /\ nextId' = ids
  /\ deletedIds' = deleted
  /\ unlinkedIds' = unlinked
  /\ UNCHANGED <<originalSectionsSnapshot, originalSectionsCount,
                 originalQuestionCounts, loadVars, saveVars>>

LocalEdit(secs) == Edit(secs, nextId, deletedIds, unlinkedIds)

HasQuestion(si, qi) ==
  si \in 1..Len(sections) /\ qi \in 1..Len(sections[si].entries)

HasChoice(si, qi, ci) ==
  HasQuestion(si, qi) /\ ci \in 1..Len(sections[si].entries[qi].choices)

\* updateQuestion(sectionIndex, questionIndex, updates), updates merged
updateQuestion(si, qi, entry) == [sections EXCEPT ![si].entries[qi] = entry]

shouldShowChoices(question) ==
  question.questionType \in {"RADIO", "CHECKBOX", "GRID"}

canHaveFollowUp(question) == question.questionType \in {"RADIO", "CHECKBOX"}

updateSectionTitle(si, title) ==
  /\ si \in 1..Len(sections)
  /\ title # sections[si].title
  /\ LocalEdit([sections EXCEPT ![si].title = title])

addSection ==
  Edit(Append(sections, emptySection(Len(sections) + 1, Fresh(1))),
       nextId + 3, deletedIds, unlinkedIds)

removeSection(si) == RemoveAt(sections, si)

\* handleDeleteSection; survey.tsx handleDeleteSection issues the delete
\* request and refetches, the form's working tree is not touched
handleDeleteSection(si, ok) ==
  /\ si \in 1..Len(sections)
  /\ IF isEditMode /\ si <= originalSectionsCount
     THEN IF sections[si].id # NoId
          THEN Edit(sections, nextId,
                    IF ok THEN deletedIds \cup SectionIds(sections[si])
                          ELSE deletedIds,
                    unlinkedIds)
          ELSE ok /\ LocalEdit(sections)
     ELSE ok /\ LocalEdit(removeSection(si))

addQuestion(si) ==
  /\ si \in 1..Len(sections)
  /\ Edit([sections EXCEPT ![si].entries = Append(@, emptyEntry(Fresh(1)))],
          nextId + 3, deletedIds, unlinkedIds)

removeQuestion(si, qi) ==
  [sections EXCEPT ![si].entries = RemoveAt(@, qi)]

\* handleDeleteQuestion; survey.tsx handleDeleteQuestion issues the delete
\* request and runs the onSuccess callback (removeQuestion) when it succeeds
handleDeleteQuestion(si, qi, ok) ==
  /\ HasQuestion(si, qi)
  /\ IF isEditMode /\ si <= originalSectionsCount
        /\ qi <= QuestionCountAt(originalQuestionCounts, si)
     THEN IF sections[si].entries[qi].id # NoId
          THEN IF ok
               THEN Edit(removeQuestion(si, qi), nextId,
                         deletedIds \cup EntryIds(sections[si].entries[qi]),
                         unlinkedIds)
               ELSE LocalEdit(sections)
          ELSE ok /\ LocalEdit(sections)
     ELSE ok /\ LocalEdit(removeQuestion(si, qi))

\* the question text area
updateQuestionText(si, qi, text) ==
  /\ HasQuestion(si, qi)
  /\ text # sections[si].entries[qi].question
  /\ LocalEdit(updateQuestion(si, qi,
       [sections[si].entries[qi] EXCEPT !.question = text]))

\* the FileUpload of the question image, with a file selected
selectQuestionImageFile(si, qi) ==
  /\ HasQuestion(si, qi)
  /\ ~sections[si].entries[qi].questionImageFile
  /\ LocalEdit(updateQuestion(si, qi,
       [sections[si].entries[qi] EXCEPT !.questionImageFile = TRUE]))

\* the Remove button of the question image
removeQuestionImage(si, qi) ==
  /\ HasQuestion(si, qi)
  /\ LET question == sections[si].entries[qi]
     IN /\ question.questionImageFile \/ question.questionImage # Undefined
        /\ LocalEdit(updateQuestion(si, qi,
             [question EXCEPT
                !.questionImageFile = FALSE,
                !.questionImage = IF question.questionImageFile
                                  THEN question.questionImage
                                  ELSE Undefined]))

\* the Allow "Other" text input checkbox, shown for RADIO and CHECKBOX
toggleHasTextInput(si, qi) ==
  /\ HasQuestion(si, qi)
  /\ canHaveFollowUp(sections[si].entries[qi])
  /\ LocalEdit(updateQuestion(si, qi,
       [sections[si].entries[qi] EXCEPT !.hasTextInput = ~@]))

\* handleQuestionTypeChange, confirmed where it asks, then
\* applyQuestionTypeChange
applyQuestionTypeChange(si, qi, newType) ==
  /\ HasQuestion(si, qi)
  /\ newType \in QuestionTypes
  /\ LET defaults == getDefaultQuestionFields(newType, Fresh(1))
     IN Edit(updateQuestion(si, qi,
               [sections[si].entries[qi] EXCEPT
                  !.questionType = newType,
                  !.choices = defaults.choices,
                  !.gridRows = defaults.gridRows,
                  !.questionImageFile = FALSE,
                  !.questionImage = Undefined]),
             nextId + Len(defaults.choices), deletedIds, unlinkedIds)

updateChoice(si, qi, ci, choice) ==
  [sections EXCEPT ![si].entries[qi].choices[ci] = choice]

handleChoiceChange(si, qi, ci, text) ==
  /\ HasChoice(si, qi, ci)
  /\ shouldShowChoices(sections[si].entries[qi])
  /\ text # sections[si].entries[qi].choices[ci].choiceText
  /\ LocalEdit(updateChoice(si, qi, ci,
       [sections[si].entries[qi].choices[ci] EXCEPT !.choiceText = text]))

handleAddChoice(si, qi) ==
  /\ HasQuestion(si, qi)
  /\ shouldShowChoices(sections[si].entries[qi])
  /\ Edit([sections EXCEPT ![si].entries[qi].choices =
             Append(@, emptyChoice(Fresh(1), Len(@)))],
          nextId + 1, deletedIds, unlinkedIds)

\* handleRemoveChoiceClick and, for a choice with a server id, the
\* confirmed handleConfirmRemoveChoice: the delete request and a refetch
handleRemoveChoice(si, qi, ci, ok) ==
  /\ HasChoice(si, qi, ci)
  /\ shouldShowChoices(sections[si].entries[qi])
  /\ Len(sections[si].entries[qi].choices) > 2
  /\ LET question == sections[si].entries[qi]
         choice == question.choices[ci]
     IN IF isEditMode /\ question.id # NoId /\ choice.id # NoId
        THEN Edit(sections, nextId,
                  IF ok THEN deletedIds \cup (ChoiceIds(choice) \ {NoId})
                        ELSE deletedIds,
                  unlinkedIds)
        ELSE ok /\ LocalEdit([sections EXCEPT ![si].entries[qi].choices =
                                RemoveAt(@, ci)])

\* toggleChoiceFollowUp and, for a follow-up with a server id that is being
\* unchecked, the confirmed handleConfirmUnlinkFollowUp
toggleChoiceFollowUp(si, qi, ci, ok) ==
  /\ HasChoice(si, qi, ci)
  /\ canHaveFollowUp(sections[si].entries[qi])
  /\ LET question == sections[si].entries[qi]
         choice == question.choices[ci]
         hasFollowUp == ~choice.hasFollowUp
     IN IF ~hasFollowUp /\ choice.hasFollowUp
           /\ Len(choice.followUpQuestion) > 0
           /\ choice.followUpQuestion[1].id # NoId /\ isEditMode
        THEN IF ok
             THEN Edit(updateChoice(si, qi, ci,
                         [choice EXCEPT !.hasFollowUp = FALSE,
                                        !.followUpQuestion = << >>]),
                       nextId, deletedIds,
                       unlinkedIds \cup
                         (FollowUpIds(choice.followUpQuestion[1]) \ {NoId}))
             ELSE LocalEdit(sections)
        ELSE /\ ok
             /\ Edit(updateChoice(si, qi, ci,
                       [choice EXCEPT
                          !.hasFollowUp = hasFollowUp,
                          !.followUpQuestion =
                             IF hasFollowUp /\ Len(choice.followUpQuestion) = 0
                             THEN <<createEmptyFollowUp(Fresh(1),
                                      question.clientId, choice.clientId)>>
                             ELSE IF hasFollowUp THEN choice.followUpQuestion
                             ELSE << >>]),
                     nextId + 1, deletedIds, unlinkedIds)

\* updateFollowUpQuestion(choiceIndex, {question: text})
updateFollowUpQuestionText(si, qi, ci, text) ==
  /\ HasChoice(si, qi, ci)
  /\ canHaveFollowUp(sections[si].entries[qi])
  /\ LET choice == sections[si].entries[qi].choices[ci]
     IN /\ choice.hasFollowUp
        /\ Len(choice.followUpQuestion) > 0
        /\ text # choice.followUpQuestion[1].question
        /\ LocalEdit(updateChoice(si, qi, ci,
             [choice EXCEPT !.followUpQuestion[1].question = text]))

\* the Question Type select of the follow-up editor, which offers TEXT,
\* RADIO and CHECKBOX
FollowUpTypes == {"TEXT", "RADIO", "CHECKBOX"}

updateFollowUpQuestionType(si, qi, ci, newType) ==
  /\ HasChoice(si, qi, ci)
  /\ canHaveFollowUp(sections[si].entries[qi])
  /\ newType \in FollowUpTypes
  /\ LET choice == sections[si].entries[qi].choices[ci]
         defaults == getDefaultQuestionFields(newType, Fresh(1))
     IN /\ choice.hasFollowUp
        /\ Len(choice.followUpQuestion) > 0
        /\ newType # choice.followUpQuestion[1].questionType
        /\ Edit(updateChoice(si, qi, ci,
                  [choice EXCEPT
                     !.followUpQuestion[1].questionType = newType,
                     !.followUpQuestion[1].choices = defaults.choices,
                     !.followUpQuestion[1].gridRows = defaults.gridRows]),
                nextId + Len(defaults.choices), deletedIds, unlinkedIds)

handleRowChange(si, qi, ri, text) ==
  /\ HasQuestion(si, qi)
  /\ sections[si].entries[qi].questionType = "GRID"
  /\ ri \in 1..Len(sections[si].entries[qi].gridRows)
  /\ text # sections[si].entries[qi].gridRows[ri].rowText
  /\ LocalEdit([sections EXCEPT ![si].entries[qi].gridRows[ri].rowText = text])

addRow(si, qi) ==
  /\ HasQuestion(si, qi)
  /\ sections[si].entries[qi].questionType = "GRID"
  /\ LocalEdit([sections EXCEPT ![si].entries[qi].gridRows =
                  Append(@, GridRow(NoId, Len(@) + 1, ""))])

removeRow(si, qi, ri) ==
  /\ HasQuestion(si, qi)
  /\ sections[si].entries[qi].questionType = "GRID"
  /\ ri \in 1..Len(sections[si].entries[qi].gridRows)
  /\ Len(sections[si].entries[qi].gridRows) > 2
  /\ LocalEdit([sections EXCEPT ![si].entries[qi].gridRows = RemoveAt(@, ri)])

\* ------------------------------------------------------- specification
\* the positions the form renders a control for
Secs == 1..Len(sections)

Qs(si) == 1..Len(sections[si].entries)

Cs(si, qi) == 1..Len(sections[si].entries[qi].choices)

Rs(si, qi) == 1..Len(sections[si].entries[qi].gridRows)

\* the requests of a wave that are rejected
Outcomes(ops) ==
  {failed \in SUBSET ops : rejected + Cardinality(failed) <= MaxFailed}

Next ==
  \/ SubmitRejected
  \/ SubmitStart
  \/ \E j \in 1..Len(jobs) : \E failed \in Outcomes(jobs[j].ops) :
       SubmitSettle(j, failed)
  \/ \E si \in Secs : \E qi \in Qs(si) : SaveQuestionRejected(si, qi)
  \/ \E si \in Secs : \E qi \in Qs(si) : SaveQuestionStart(si, qi)
  \/ \E j \in 1..Len(jobs) : \E failed \in Outcomes(jobs[j].ops) :
       SaveQuestionWave1Settle(j, failed)
  \/ \E j \in 1..Len(jobs) : \E failed \in Outcomes(jobs[j].ops) :
       SaveQuestionWave2Settle(j, failed)
  \/ \E si \in Secs, title \in Texts : updateSectionTitle(si, title)
  \/ addSection
  \/ \E si \in Secs, ok \in BOOLEAN : handleDeleteSection(si, ok)
  \/ \E si \in Secs : addQuestion(si)
  \/ \E si \in Secs : \E qi \in Qs(si), ok \in BOOLEAN :
       handleDeleteQuestion(si, qi, ok)
  \/ \E si \in Secs : \E qi \in Qs(si), text \in Texts :
       updateQuestionText(si, qi, text)
  \/ \E si \in Secs : \E qi \in Qs(si) : selectQuestionImageFile(si, qi)
  \/ \E si \in Secs : \E qi \in Qs(si) : removeQuestionImage(si, qi)
  \/ \E si \in Secs : \E qi \in Qs(si), newType \in QuestionTypes :
       applyQuestionTypeChange(si, qi, newType)
  \/ \E si \in Secs : \E qi \in Qs(si) : \E ci \in Cs(si, qi), text \in Texts :
       handleChoiceChange(si, qi, ci, text)
  \/ \E si \in Secs : \E qi \in Qs(si) : handleAddChoice(si, qi)
  \/ \E si \in Secs : \E qi \in Qs(si) : \E ci \in Cs(si, qi), ok \in BOOLEAN :
       handleRemoveChoice(si, qi, ci, ok)
  \/ \E si \in Secs : \E qi \in Qs(si) : \E ci \in Cs(si, qi), ok \in BOOLEAN :
       toggleChoiceFollowUp(si, qi, ci, ok)
  \/ \E si \in Secs : \E qi \in Qs(si) : \E ci \in Cs(si, qi), text \in Texts :
       updateFollowUpQuestionText(si, qi, ci, text)
  \/ \E si \in Secs : \E qi \in Qs(si) : toggleHasTextInput(si, qi)
  \/ \E si \in Secs : \E qi \in Qs(si) :
       \E ci \in Cs(si, qi), newType \in FollowUpTypes :
         updateFollowUpQuestionType(si, qi, ci, newType)
  \/ \E si \in Secs : \E qi \in Qs(si) : \E ri \in Rs(si, qi), text \in Texts :
       handleRowChange(si, qi, ri, text)
  \/ \E si \in Secs : \E qi \in Qs(si) : addRow(si, qi)
  \/ \E si \in Secs : \E qi \in Qs(si) : \E ri \in Rs(si, qi) :
       removeRow(si, qi, ri)

Spec == Init /\ [][Next]_vars

\* ------------------------------------------------- drafting sessions
\* Longer sessions of the same form, followed through the controls that
\* fill in a question: the builder opened with focusSection add-section,
\* and the builder opened on a survey with one RADIO question.
DraftTexts == {"b"}

DraftInit ==
  /\ \/ Load(ServerTreeE, "add-section", 1, MaxDraftEdits)
     \/ Load(ServerTreeD, "none", 1, MaxChoiceEdits)
  /\ flightLimit = MaxInFlight
  /\ Mounted

DraftNext ==
  \/ SubmitRejected
  \/ SubmitStart
  \/ \E j \in 1..Len(jobs) : \E failed \in Outcomes(jobs[j].ops) :
       SubmitSettle(j, failed)
  \/ \E si \in Secs : \E qi \in Qs(si) : SaveQuestionRejected(si, qi)
  \/ \E si \in Secs : \E qi \in Qs(si) : SaveQuestionStart(si, qi)
  \/ \E j \in 1..Len(jobs) : \E failed \in Outcomes(jobs[j].ops) :
       SaveQuestionWave1Settle(j, failed)
  \/ \E j \in 1..Len(jobs) : \E failed \in Outcomes(jobs[j].ops) :
       SaveQuestionWave2Settle(j, failed)
  \/ \E si \in Secs : \E qi \in Qs(si), text \in DraftTexts :
       updateQuestionText(si, qi, text)
  \/ \E si \in Secs : \E qi \in Qs(si) :
       \E ci \in Cs(si, qi), text \in DraftTexts :
         handleChoiceChange(si, qi, ci, text)
  \/ \E si \in Secs : \E qi \in Qs(si) : handleAddChoice(si, qi)
  \/ \E si \in Secs : \E qi \in Qs(si) : \E ci \in Cs(si, qi) :
       toggleChoiceFollowUp(si, qi, ci, TRUE)
  \/ \E si \in Secs : \E qi \in Qs(si) :
       \E ci \in Cs(si, qi), text \in DraftTexts :
         updateFollowUpQuestionText(si, qi, ci, text)

DraftSpec == DraftInit /\ [][DraftNext]_vars

\* A session that replaces the one question of a section: the question is
\* deleted, a new one is added and filled in.
ReplaceInit ==
  /\ Load(ServerTreeE, "none", 1, MaxReplaceEdits)
  /\ flightLimit = MaxInFlight
  /\ Mounted

ReplaceNext ==
  \/ SubmitRejected
  \/ SubmitStart
  \/ \E j \in 1..Len(jobs) : \E failed \in Outcomes(jobs[j].ops) :
       SubmitSettle(j, failed)
  \/ \E si \in Secs : \E qi \in Qs(si), ok \in BOOLEAN :
       handleDeleteQuestion(si, qi, ok)
  \/ \E si \in Secs : addQuestion(si)
  \/ \E si \in Secs : \E qi \in Qs(si), newType \in QuestionTypes :
       applyQuestionTypeChange(si, qi, newType)
  \/ \E si \in Secs : \E qi \in Qs(si), text \in Texts :
       updateQuestionText(si, qi, text)

ReplaceSpec == ReplaceInit /\ [][ReplaceNext]_vars

\* A session in which a save button is pressed again while the requests of
\* an earlier save are pending; the form is opened on Add Question.
OverlapInit ==
  /\ Load(ServerTreeE, "add-question", 1, MaxOverlapEdits)
  /\ flightLimit = MaxOverlap
  /\ Mounted

OverlapNext ==
  \/ SubmitRejected
  \/ SubmitStart
  \/ \E j \in 1..Len(jobs) : \E failed \in Outcomes(jobs[j].ops) :
       SubmitSettle(j, failed)
  \/ \E si \in Secs : \E qi \in Qs(si) : SaveQuestionRejected(si, qi)
  \/ \E si \in Secs : \E qi \in Qs(si) : SaveQuestionStart(si, qi)
  \/ \E j \in 1..Len(jobs) : \E failed \in Outcomes(jobs[j].ops) :
       SaveQuestionWave1Settle(j, failed)
  \/ \E si \in Secs : \E qi \in Qs(si), newType \in QuestionTypes :
       applyQuestionTypeChange(si, qi, newType)
  \/ \E si \in Secs : \E qi \in Qs(si), text \in Texts :
       updateQuestionText(si, qi, text)

OverlapSpec == OverlapInit /\ [][OverlapNext]_vars

\* A session on the choices of one saved question: choices are added,
\* removed and filled in, and the question is saved.
OrderInit ==
  /\ Load(ServerTreeD, "none", 1, MaxOrderEdits)
  /\ flightLimit = MaxInFlight
  /\ Mounted

OrderNext ==
  \/ \E si \in Secs : \E qi \in Qs(si) : SaveQuestionRejected(si, qi)
  \/ \E si \in Secs : \E qi \in Qs(si) : SaveQuestionStart(si, qi)
  \/ \E j \in 1..Len(jobs) : \E failed \in Outcomes(jobs[j].ops) :
       SaveQuestionWave1Settle(j, failed)
  \/ \E si \in Secs : \E qi \in Qs(si) :
       \E ci \in Cs(si, qi), text \in DraftTexts :
         handleChoiceChange(si, qi, ci, text)
  \/ \E si \in Secs : \E qi \in Qs(si) : handleAddChoice(si, qi)
  \/ \E si \in Secs : \E qi \in Qs(si) :
       \E ci \in Cs(si, qi), ok \in BOOLEAN :
         handleRemoveChoice(si, qi, ci, ok)

OrderSpec == OrderInit /\ [][OrderNext]_vars

\* ------------------------------------------------------------ properties
\* what the properties below read off the two most recent save outcomes

\* the save ran its requests (it was not stopped by validation) and none
\* was rejected or left unissued
FullySucceeded(rep) ==
  /\ rep.kind # "none"
  /\ rep.toast # "validation"
  /\ rep.failed = {}
  /\ rep.skipped = {}

\* some requests of the save succeeded and some were rejected
PartiallyFailed(rep) ==
  /\ rep.kind # "none"
  /\ rep.failed # {}
  /\ rep.issued \ rep.failed # {}

\* `report` is the same save as `prevReport`, started after it completed,
\* with no UI action since the earlier one started
SaveAgain ==
  /\ prevReport.kind # "none"
  /\ report.kind = prevReport.kind
  /\ report.si = prevReport.si
  /\ report.qi = prevReport.qi
  /\ report.seq0 = prevReport.seq1 + 1
  /\ report.e0 = prevReport.e0

\* no UI action since the save `report` describes started: the working
\* tree is the tree that save read
Untouched == report.kind # "none" /\ report.e0 = edits

FailureToasts ==
  {"changes saved, some failed", "Failed to save changes",
   "Failed to save question changes"}

\* C1 (amended): after loading a server tree and making no edit, a
\* whole-form save issues no request; it reports "No changes to save" when
\* the loaded form passes validateForm, and the validation error otherwise.
C1_RoundTripValidated ==
  (report.kind = "form" /\ edits = 0) =>
    /\ report.issued = {}
    /\ report.toast = IF validateForm(sections) THEN "No changes to save"
                      ELSE "validation"

\* C1 witness: a whole-form save of an unedited, valid loaded tree has
\* completed with no request and "No changes to save".
C1_Witness ==
  /\ report.kind = "form"
  /\ edits = 0
  /\ validateForm(sections)
  /\ report.issued = {}
  /\ report.toast = "No changes to save"

\* C1 as stated: after loading a server tree and making no edit, a
\* whole-form save issues no request and reports "No changes to save".
C1_RoundTrip ==
  (report.kind = "form" /\ edits = 0) =>
    report.issued = {} /\ report.toast = "No changes to save"

\* C2: when a save fully succeeds, the same save run again with no edit in
\* between issues no request.
C2_Idempotence ==
  (SaveAgain /\ FullySucceeded(prevReport)) => report.issued = {}

\* the ids of every node of a tree, NoId among them when a node has none
NodeIds(tree) ==
  UNION {{sec.id}
           \cup UNION {{e.id} \cup UNION {ChoiceIds(c) : c \in Range(e.choices)}
                              \cup {r.id : r \in Range(e.gridRows)}
                       : e \in Range(sec.entries)}
         : sec \in Range(tree)}

\* C3: after a whole-form save that issued requests, all of which
\* succeeded, the snapshot is structurally equal to the working tree the
\* save read, and every node of it, the newly created ones included, has
\* its server id.
C3_SnapshotEqualsTree ==
  (report.kind = "form" /\ FullySucceeded(report) /\ report.issued # {}
     /\ Untouched /\ jobs = << >>) =>
    /\ originalSectionsSnapshot = JsonCopy(sections)
    /\ NoId \notin NodeIds(originalSectionsSnapshot)

\* C4: after a whole-form save in which some requests succeeded and others
\* were rejected, the snapshot has the new title and description of every
\* section whose update succeeded and the new fields of every entry whose
\* update succeeded, and keeps the old ones where the update was rejected.
C4_PartialFailureSnapshot ==
  (report.kind = "form" /\ PartiallyFailed(report) /\ Untouched) =>
    /\ \A si \in 1..Min(Len(sections), Len(originalSectionsSnapshot)) :
         LET op == Op("updateSection", sections[si].id, NoId, 1)
         IN /\ op \in report.issued \ report.failed =>
                 ~hasSectionChanged(sections[si], originalSectionsSnapshot[si])
            /\ op \in report.failed =>
                 hasSectionChanged(sections[si], originalSectionsSnapshot[si])
    /\ \A p \in SubmitPairs(sections, originalSectionsSnapshot) :
         LET current == sections[p[1]].entries[p[2]]
             original == originalSectionsSnapshot[p[1]].entries[p[2]]
             op == Op("updateEntry", current.id, NoId, 1)
         IN /\ op \in report.issued \ report.failed =>
                 JsonEntry(current) = original
            /\ op \in report.failed => hasEntryChanged(current, original)

\* C5: after a save that partially failed, the same save run again with
\* no edit in between issues exactly the requests that were not carried
\* out, and none of those that succeeded.
C5_ExactRetry ==
  (SaveAgain /\ PartiallyFailed(prevReport)) =>
    report.issued = prevReport.failed \cup prevReport.skipped

\* C6: a rejected request never keeps an independent request of the same
\* save from being issued: no follow-up create that refers only to nodes
\* already on the server (its parent entry and trigger choice have server
\* ids) is left unissued.
C6_IndependentIssued ==
  \A o \in report.skipped : o.r # "id"

\* C7: a save with a rejected request tells the user about the failure.
C7_FailureReported ==
  report.failed # {} => report.toast \in FailureToasts

\* C8: when an entry or a nested follow-up of the working tree fails
\* validateSurveyEntry, a save (whole-form or per-question) issues no
\* request.
C8_ValidationGate ==
  (Untouched /\ \E e \in AllEntries(sections) \cup AllFollowUps(sections) :
                  ~validateSurveyEntry(e)) =>
    report.issued = {}

\* C9: no locally created node is carried by more than one successful
\* create request.
C9_CreateOnce == createdTwice = {}

\* C10: a node with a server id leaves the working tree only after its
\* delete (or unlink) request has succeeded, and is out of the working
\* tree once that request has succeeded.
C10_DeletionLifecycle ==
  /\ (loadedIds \ TreeIds(sections)) \subseteq (deletedIds \cup unlinkedIds)
  /\ deletedIds \cap TreeIds(sections) = {}

\* the new follow-ups of a saved entry that hang off a choice which is
\* itself new (no server id yet)
MixedFollowUps(entry) ==
  IF entry.id = NoId THEN {}
  ELSE {c.followUpQuestion[1].clientId :
          c \in {x \in Range(entry.choices) :
                   /\ x.id = NoId
                   /\ x.hasFollowUp
                   /\ Len(x.followUpQuestion) > 0
                   /\ x.followUpQuestion[1].id = NoId}}

\* the entries the save `rep` describes is responsible for
SavedEntries(rep) ==
  IF rep.kind = "question"
  THEN {sections[rep.si].entries[rep.qi]}
  ELSE AllEntries(sections)

\* C11: a save of a saved entry that has a new follow-up under a choice
\* that is new in the same save reports an error and issues no create
\* request for that follow-up.
C11_MixedRejected ==
  (Untouched /\ report.kind \in {"form", "question"}) =>
    \A e \in SavedEntries(report) :
      MixedFollowUps(e) # {} =>
        /\ report.toast \in FailureToasts \cup {"validation"}
        /\ \A o \in report.issued :
             ~(o.k = "addFollowUp" /\ o.t \in MixedFollowUps(e))

\* the per-question save `job` is of an entry whose type differs from the
\* type the snapshot has for it
TypeChanged(job) ==
  /\ job.kind = "question"
  /\ Len(OriginalEntrySeq(job.snap, job.si, job.qi)) > 0
  /\ job.secs[job.si].entries[job.qi].questionType
       # job.snap[job.si].entries[job.qi].questionType

\* C12: when a saved entry's type has been changed, no create of one of
\* its new choices or rows is in flight together with a delete of one of
\* its old choices or rows or with the update of the entry: the deletes
\* and the entry update have completed before any create is issued.
C12_DeletesBeforeCreates ==
  \A j \in 1..Len(jobs) :
    TypeChanged(jobs[j]) =>
      \A create, other \in jobs[j].ops :
        ~ ( /\ create.k \in {"addChoice", "addGridRow"}
            /\ other.k \in DeleteKinds \cup {"updateEntry"} )

\* the nodes of a section and what a payload says about them
Nested(entry) ==
  {<<c, c.followUpQuestion[1]>> :
     c \in {x \in Range(entry.choices) : Len(x.followUpQuestion) > 0}}

CarriesEntry(payload, e, isFollowUp) ==
  \E i \in 1..Len(payload) :
    /\ payload[i].clientId = e.clientId
    /\ payload[i].isFollowUp = isFollowUp
    /\ payload[i].question = e.question
    /\ payload[i].questionType = e.questionType
    /\ [ci \in 1..Len(e.choices) |-> e.choices[ci].clientId]
         = [ci \in 1..Len(payload[i].choices) |-> payload[i].choices[ci].clientId]
    /\ [ci \in 1..Len(e.choices) |-> e.choices[ci].choiceText]
         = [ci \in 1..Len(payload[i].choices) |-> payload[i].choices[ci].choiceText]
    /\ [ri \in 1..Len(e.gridRows) |-> e.gridRows[ri].rowText]
         = [ri \in 1..Len(payload[i].gridRows) |-> payload[i].gridRows[ri].rowText]

CarriesSection(payload, sec) ==
  /\ payload.title = sec.title
  /\ \A e \in Range(sec.entries) :
       /\ CarriesEntry(payload.entries, e, FALSE)
       /\ \A n \in Nested(e) :
            /\ CarriesEntry(payload.entries, n[2], TRUE)
            /\ \E i \in 1..Len(payload.entries) :
                 /\ payload.entries[i].clientId = n[2].clientId
                 /\ payload.entries[i].parentQuestionClientId = e.clientId
                 /\ payload.entries[i].triggerChoiceClientIds = {n[1].clientId}

\* the client ids of the nodes of the sections past the first `count`
NewSectionClientIds(secs, count) ==
  UNION {UNION {EntryClientIds(e)
                  \cup UNION {FollowUpClientIds(n[2]) : n \in Nested(e)}
                : e \in Range(secs[i].entries)}
         : i \in (count + 1)..Len(secs)}

\* C13: a whole-form save of a tree with new sections issues exactly one
\* bulk-create request; its payload carries every entry, choice, row and
\* nested follow-up of every new section; and no other request of the save
\* is about a node of a new section.
C13_BulkCarriesSection ==
  \A j \in 1..Len(jobs) :
    LET job == jobs[j]
        payload == BulkPayload(job.secs, job.count)
    IN (job.kind = "form" /\ Len(job.secs) > job.count) =>
         /\ Cardinality({o \in job.ops : o.k = "addSectionsBulk"}) = 1
         /\ \A idx \in 1..Len(payload) :
              CarriesSection(payload[idx], job.secs[job.count + idx])
         /\ \A o \in job.ops :
              o.k # "addSectionsBulk" =>
                /\ o.k \notin {"addChoice", "addGridRow", "addFollowUp"}
                /\ o.t \notin NewSectionClientIds(job.secs, job.count)
                /\ o.k = "addEntry" =>
                     o.e \in {job.secs[i].id : i \in 1..job.count} \ {NoId}

\* C13 witness: a whole-form save is in flight whose bulk-create request
\* is for a new section with an entry, its choices and a follow-up nested
\* under one of the choices.
C13_Witness ==
  \E j \in 1..Len(jobs) :
    /\ jobs[j].kind = "form"
    /\ \E o \in jobs[j].ops : o.k = "addSectionsBulk"
    /\ \E i \in (jobs[j].count + 1)..Len(jobs[j].secs) :
         \E e \in Range(jobs[j].secs[i].entries) :
           Len(e.choices) >= 2 /\ Nested(e) # {}

\* C14: once the unlink request for a saved follow-up has succeeded, the
\* follow-up (with its choices and rows) is in neither the working tree
\* nor the snapshot.
C14_UnlinkedEverywhere ==
  /\ unlinkedIds \cap TreeIds(sections) = {}
  /\ unlinkedIds \cap TreeIds(originalSectionsSnapshot) = {}

\* C15: the change detector finds no entry of the working tree, an entry
\* holding a freshly selected image file included, changed against itself.
C15_DetectorReflexive ==
  \A e \in AllEntries(sections) \cup AllFollowUps(sections) :
    ~hasEntryChanged(e, e)

\* C16: no UI action changes the snapshot; and whenever the snapshot
\* changes, every saved node that leaves it has had its delete (or unlink)
\* request succeed and every new node that enters it has been carried by a
\* create request that succeeded.
C16_SnapshotFrame ==
  [][ /\ edits' # edits =>
           originalSectionsSnapshot' = originalSectionsSnapshot
      /\ originalSectionsSnapshot' # originalSectionsSnapshot =>
           /\ (TreeIds(originalSectionsSnapshot)
                 \ TreeIds(originalSectionsSnapshot'))
                \subseteq (deletedIds' \cup unlinkedIds')
           /\ (NewSectionClientIds(originalSectionsSnapshot', 0)
                 \ NewSectionClientIds(originalSectionsSnapshot, 0))
                \subseteq createdOnce' ]_vars

\* positions of a response section's entries: the main questions, and
\* the follow-up entries of parent `pid` triggered by choice `cid`
MainPositions(entries) == {k \in 1..Len(entries) : ~entries[k].isFollowUp}

TriggeredPositions(entries, pid, cid) ==
  {k \in 1..Len(entries) :
     /\ entries[k].isFollowUp
     /\ entries[k].parentQuestionId = pid
     /\ cid \in entries[k].triggerChoiceIds}

Least(positions) == CHOOSE k \in positions : \A m \in positions : k <= m

\* C17: right after the load, under every choice of every main question
\* the working tree nests the first follow-up entry, in the order of the
\* response, whose parent is that question and whose trigger choices
\* include that choice; a choice with no such entry has no follow-up.
C17_FirstFollowUpNested ==
  edits = 0 =>
    \A s \in 1..Len(response) :
      LET entries == response[s].entries
      IN \A k \in MainPositions(entries) :
           LET i == Cardinality({m \in MainPositions(entries) : m <= k})
               loaded == sections[s].entries[i]
           IN /\ loaded.id = entries[k].id
              /\ Len(loaded.choices) = Len(entries[k].choices)
              /\ \A c \in 1..Len(entries[k].choices) :
                   LET found == TriggeredPositions(entries, entries[k].id,
                                                   entries[k].choices[c].id)
                   IN IF found = {}
                      THEN /\ ~loaded.choices[c].hasFollowUp
                           /\ loaded.choices[c].followUpQuestion = << >>
                      ELSE /\ loaded.choices[c].hasFollowUp
                           /\ Len(loaded.choices[c].followUpQuestion) = 1
                           /\ loaded.choices[c].followUpQuestion[1].id
                                = entries[Least(found)].id

\* C17 witness: a response has been loaded in which two follow-up entries
\* are triggered by the same choice of the same question and another
\* choice of that question triggers none; the first of the two is nested.
C17_Witness ==
  /\ edits = 0
  /\ \E s \in 1..Len(response) :
       \E k \in MainPositions(response[s].entries) :
         \E c, d \in 1..Len(response[s].entries[k].choices) :
           LET entries == response[s].entries
               found == TriggeredPositions(entries, entries[k].id,
                                           entries[k].choices[c].id)
           IN /\ Cardinality(found) = 2
              /\ TriggeredPositions(entries, entries[k].id,
                                    entries[k].choices[d].id) = {}
              /\ k = 1
              /\ sections[s].entries[1].choices[c].followUpQuestion[1].id
                   = entries[Least(found)].id
              /\ ~sections[s].entries[1].choices[d].hasFollowUp

\* follow-up `f`, nested under choice `c` of entry `e`, refers to them
\* through one id family only, and the reference is to `e` and `c`
OneFamily(f, e, c) ==
  /\ (f.parentQuestionClientId # NoId) # (f.parentQuestionId # NoId)
  /\ (f.triggerChoiceClientIds # {}) # (f.triggerChoiceIds # {})
  /\ (f.parentQuestionClientId # NoId) = (f.triggerChoiceClientIds # {})
  /\ IF f.parentQuestionId # NoId
     THEN f.parentQuestionId = e.id /\ f.triggerChoiceIds = {c.id}
     ELSE /\ f.parentQuestionClientId = e.clientId
          /\ f.triggerChoiceClientIds = {c.clientId}

\* C18: every follow-up of the working tree, and every follow-up of a
\* bulk-create payload in flight, refers to its parent and its trigger
\* choice through exactly one id family (client ids or server ids), and
\* that reference is to an entry and a choice that exist.
C18_OneReferenceFamily ==
  /\ \A e \in AllEntries(sections) :
       \A n \in Nested(e) : OneFamily(n[2], e, n[1])
  /\ \A j \in 1..Len(jobs) :
       jobs[j].kind = "form" =>
         LET payload == BulkPayload(jobs[j].secs, jobs[j].count)
         IN \A idx \in 1..Len(payload) :
              \A p \in Range(payload[idx].entries) :
                p.isFollowUp =>
                  \E q \in Range(payload[idx].entries) :
                    /\ ~q.isFollowUp
                    /\ q.clientId = p.parentQuestionClientId
                    /\ p.triggerChoiceClientIds
                         \subseteq {c.clientId : c \in Range(q.choices)}
                    /\ p.triggerChoiceClientIds # {}

\* the create request of the choice with client id `cid` in the save `job`
ChoiceCreate(job, cid) ==
  Op("addChoice", cid, job.secs[job.si].entries[job.qi].id, 1)

\* C19: a create request for a new follow-up that refers to a choice which
\* is new in the same save is in flight only in the wave that follows the
\* choice creates, and only when the create of that choice has succeeded;
\* when the create of the choice was rejected the follow-up create is left
\* unissued.
C19_FollowUpAfterChoice ==
  /\ \A j \in 1..Len(jobs) :
       \A o \in jobs[j].ops :
         (o.k = "addFollowUp" /\ o.r = "clientId") =>
           /\ jobs[j].kind = "question"
           /\ jobs[j].pc = "wave2"
           /\ ChoiceCreate(jobs[j], o.e) \in jobs[j].ops1 \ jobs[j].failed1
  /\ \A o \in report.issued :
       (o.k = "addFollowUp" /\ o.r = "clientId") =>
         \E c \in report.issued \ report.failed :
           c.k = "addChoice" /\ c.t = o.e
  /\ \A c \in report.failed :
       c.k = "addChoice" =>
         \A o \in report.issued : ~(o.k = "addFollowUp" /\ o.e = c.t)

\* C19 witness: the follow-up wave of a per-question save is in flight
\* with the create of a follow-up under a choice whose own create was
\* issued, and succeeded, in the first wave of the same save.
C19_Witness ==
  \E j \in 1..Len(jobs) :
    /\ jobs[j].pc = "wave2"
    /\ \E o \in jobs[j].ops :
         /\ o.k = "addFollowUp"
         /\ o.r = "clientId"
         /\ ChoiceCreate(jobs[j], o.e) \in jobs[j].ops1 \ jobs[j].failed1

\* the update requests a comparison of every saved node of `secs` with
\* the node of `snap` that has the same server id would issue
UpdatesById(secs, snap) ==
  {Op("updateSection", sec.id, NoId, 1) :
     sec \in {x \in Range(secs) :
                x.id # NoId /\ \E o \in Range(snap) :
                                 o.id = x.id /\ hasSectionChanged(x, o)}}
  \cup
  {Op("updateEntry", e.id, NoId, 1) :
     e \in {x \in AllEntries(secs) :
              x.id # NoId /\ \E o \in AllEntries(snap) :
                               o.id = x.id /\ hasEntryChanged(x, o)}}
  \cup
  UNION {{Op("updateChoice", c.id, e.id, 1) :
            c \in {x \in Range(e.choices) :
                     x.id # NoId
                     /\ \E o \in AllEntries(snap) :
                          \E oc \in Range(o.choices) :
                            oc.id = x.id /\ hasChoiceChanged(x, oc)}}
         : e \in {x \in AllEntries(secs) : x.id # NoId}}
  \cup
  UNION {{Op("updateGridRow", r.id, e.id, 1) :
            r \in {x \in Range(e.gridRows) :
                     x.id # NoId
                     /\ \E o \in AllEntries(snap) :
                          \E orow \in Range(o.gridRows) :
                            orow.id = x.id /\ hasGridRowChanged(x, orow)}}
         : e \in {x \in AllEntries(secs) :
                    x.id # NoId /\ x.questionType = "GRID"}}

UpdateKinds == {"updateSection", "updateEntry", "updateChoice", "updateGridRow"}

\* C20: the update requests of a whole-form save are those of comparing
\* every saved section, entry, choice and grid row with the snapshot node
\* that has the same server id, whatever edits came before.
C20_ComparedById ==
  /\ \A j \in 1..Len(jobs) :
       jobs[j].kind = "form" =>
         {o \in jobs[j].ops : o.k \in UpdateKinds}
           = UpdatesById(jobs[j].secs, jobs[j].snap)
  /\ (report.kind = "form" /\ report.toast = "No changes to save"
        /\ Untouched) =>
       UpdatesById(sections, originalSectionsSnapshot) = {}

SuccessToasts ==
  {"All changes saved successfully", "Question saved successfully!"}

\* the save `job` is the one that completes in this step, as `report'`
Completes(job) ==
  /\ finished' = finished + 1
  /\ report'.kind = job.kind
  /\ report'.si = job.si
  /\ report'.qi = job.qi
  /\ report'.e0 = job.e0
  /\ report'.seq0 = job.seq0

ChoiceAndRowIds(e) ==
  ({c.id : c \in Range(e.choices)} \cup {r.id : r \in Range(e.gridRows)})
    \ {NoId}

\* the saved choices and rows the snapshot read by `job` has and the
\* working tree read by `job` has not, among the entries it saves
RemovedIds(job) ==
  IF job.kind = "question"
  THEN UNION {ChoiceAndRowIds(o) :
                o \in Range(OriginalEntrySeq(job.snap, job.si, job.qi))}
         \ TreeIds(job.secs)
  ELSE UNION {ChoiceAndRowIds(o) : o \in AllEntries(job.snap)}
         \ TreeIds(job.secs)

\* C21: when a save completes and reports success, the delete request of
\* every saved choice and grid row that the snapshot had and the working
\* tree no longer had when the save started has succeeded.
C21_RemovedAreDeleted ==
  [][\A j \in 1..Len(jobs) :
       (Completes(jobs[j]) /\ Len(jobs') < Len(jobs)
          /\ report'.toast \in SuccessToasts) =>
         RemovedIds(jobs[j]) \subseteq deletedIds']_vars

\* the client ids of the entries, choices and follow-ups of `secs` that
\* have no server id
UnsavedClientIds(secs) ==
  UNION {{x.clientId : x \in {e} \cup Range(e.choices)
                               \cup {n[2] : n \in Nested(e)}
                               \cup UNION {Range(n[2].choices) : n \in Nested(e)}}
         : e \in AllEntries(secs)}
    \ TreeIds(secs)

\* the create requests of the grid rows without a server id of the saved
\* entries of `secs`
UnsavedRowCreates(secs) ==
  UNION {{Op("addGridRow", -(10 * e.id + ri), e.id, 1) :
            ri \in {r \in 1..Len(e.gridRows) : e.gridRows[r].id = NoId}}
         : e \in {x \in AllEntries(secs) : x.id # NoId}}

\* C22: when a whole-form save completes and reports every change saved,
\* every node the working tree it read held without a server id was
\* carried by a create request of that save.
C22_NewNodesCreated ==
  [][\A j \in 1..Len(jobs) :
       (Completes(jobs[j]) /\ Len(jobs') < Len(jobs)
          /\ report'.toast = "All changes saved successfully") =>
         /\ UnsavedClientIds(jobs[j].secs)
              \subseteq UNION {Carried(o, jobs[j].secs, jobs[j].count) :
                                 o \in jobs[j].ops}
         /\ UnsavedRowCreates(jobs[j].secs) \subseteq jobs[j].ops]_vars

\* C23: in every working tree a follow-up is nested only under a choice of
\* a RADIO or CHECKBOX entry, no follow-up has type GRID, and a choice
\* nests at most one follow-up.
C23_FollowUpShape ==
  \A si \in 1..Len(sections) : \A qi \in 1..Len(sections[si].entries) :
    LET entry == sections[si].entries[qi]
    IN \A ci \in 1..Len(entry.choices) :
         LET nested == entry.choices[ci].followUpQuestion
         IN /\ Len(nested) <= 1
            /\ Len(nested) > 0 =>
                 /\ entry.questionType \in {"RADIO", "CHECKBOX"}
                 /\ nested[1].questionType # "GRID"

\* the saved follow-ups nested in `entries` whose question text, type or
\* required flag differs from the follow-up of `snap` with the same
\* server id
EditedFollowUps(entries, snap) ==
  {f.id : f \in {x \in UNION {UNION {Range(c.followUpQuestion)
                                      : c \in Range(e.choices)}
                              : e \in entries} :
                   /\ x.id # NoId
                   /\ \E o \in AllFollowUps(snap) :
                        /\ o.id = x.id
                        /\ \/ o.question # x.question
                           \/ o.questionType # x.questionType
                           \/ o.isRequired # x.isRequired}}

\* the entries a save reads: the current entry for the per-question save,
\* every entry for the whole-form save
SavedBy(kind, si, qi, secs) ==
  IF kind = "question" THEN {secs[si].entries[qi]} ELSE AllEntries(secs)

\* C24: a save issues an entry update for every saved follow-up it reads
\* whose question text, type or required flag was edited; in particular
\* it does not report "No changes to save" while such a follow-up exists.
C24_FollowUpUpdated ==
  /\ \A j \in 1..Len(jobs) :
       \A id \in EditedFollowUps(SavedBy(jobs[j].kind, jobs[j].si,
                                         jobs[j].qi, jobs[j].secs),
                                 jobs[j].snap) :
         \E o \in jobs[j].ops \cup jobs[j].ops1 :
           o.k = "updateEntry" /\ o.t = id
  /\ (report.toast = "No changes to save" /\ Untouched) =>
       EditedFollowUps(SavedBy(report.kind, report.si, report.qi, sections),
                       originalSectionsSnapshot) = {}

\* the fields whose difference makes hasEntryChanged report a change
ChangedEntryFields(current, original) ==
  {f \in {"question", "questionType", "isRequired", "hasTextInput"} :
     current[f] # original[f]}
    \cup (IF current.questionImageFile
             \/ current.questionImage # original.questionImage
          THEN {"questionImage"} ELSE {})

\* the fields whose difference makes hasChoiceChanged report a change
ChangedChoiceFields(current, original) ==
  {f \in {"choiceText", "choiceOrder", "hasTextInput"} :
     current[f] # original[f]}
    \cup (IF current.choiceImageFile
             \/ current.choiceImage # original.choiceImage
          THEN {"choiceImage"} ELSE {})

\* C25: every update request of a save carries each field in which the
\* entry or choice it updates differs from the snapshot node of the same
\* server id.
C25_ChangedFieldsCarried ==
  \A j \in 1..Len(jobs) : \A o \in jobs[j].ops \cup jobs[j].ops1 :
    /\ o.k = "updateEntry" =>
         \A cur \in AllEntries(jobs[j].secs), orig \in AllEntries(jobs[j].snap) :
           (cur.id = o.t /\ orig.id = o.t) =>
             ChangedEntryFields(cur, orig)
               \subseteq UpdateEntryFormData(UpdateEntryData(cur))
    /\ o.k = "updateChoice" =>
         \A e \in AllEntries(jobs[j].secs), oe \in AllEntries(jobs[j].snap) :
           \A cur \in Range(e.choices), orig \in Range(oe.choices) :
             (cur.id = o.t /\ orig.id = o.t) =>
               ChangedChoiceFields(cur, orig)
                 \subseteq UpdateChoiceFormData(UpdateChoiceData(cur))

\* C26: the requests a save issues, at its start and at the start of its
\* follow-up wave, name no node whose delete request has succeeded, either
\* as the node they act on or as the owner they are addressed to.
C26_NoRequestOnDeleted ==
  [][\A j \in 1..Len(jobs') :
       (/\ Len(jobs') >= Len(jobs)
        /\ j > Len(jobs) \/ jobs'[j].pc # jobs[j].pc) =>
         \A o \in jobs'[j].ops :
           o.t \notin deletedIds' /\ o.e \notin deletedIds']_vars

\* the entries without a server id that `secs` holds in section `si`, a
\* saved section the form was loaded with
UnsavedEntries(secs, count, si) ==
  IF si <= Min(count, Len(secs)) /\ secs[si].id # NoId
  THEN {e \in Range(secs[si].entries) : e.id = NoId} ELSE {}

\* a saved entry of section `si` of `snap` has been deleted
EntryDeletedIn(snap, si) ==
  si <= Len(snap) /\ \E o \in Range(snap[si].entries) : o.id \in deletedIds

\* C27: once a saved entry of a loaded section has been deleted, a
\* whole-form save issues an addEntry request for every entry without a
\* server id that the section holds, and does not report "No changes to
\* save" while the section holds one.
C27_ReplacementCreated ==
  /\ \A j \in 1..Len(jobs) : \A si \in 1..Len(jobs[j].secs) :
       (jobs[j].kind = "form" /\ EntryDeletedIn(jobs[j].snap, si)) =>
         \A e \in UnsavedEntries(jobs[j].secs, jobs[j].count, si) :
           \E o \in jobs[j].ops : o.k = "addEntry" /\ o.t = e.clientId
  /\ \A si \in 1..Len(sections) :
       (/\ report.kind = "form" /\ report.toast = "No changes to save"
        /\ Untouched
        /\ EntryDeletedIn(originalSectionsSnapshot, si)) =>
         UnsavedEntries(sections, originalSectionsCount, si) = {}

\* C28: at most one save has requests pending at any time, and no client
\* id is carried by the create requests of two saves that are pending
\* together.
C28_OneSaveInFlight ==
  /\ Len(jobs) <= 1
  /\ \A i, j \in 1..Len(jobs) :
       i # j =>
         UNION {Carried(o, jobs[i].secs, jobs[i].count) : o \in jobs[i].ops}
           \cap UNION {Carried(o, jobs[j].secs, jobs[j].count)
                         : o \in jobs[j].ops}
           = {}

\* the update requests for the edits made to saved nodes since `job`
\* read the working tree; for a per-question save, those of its entry
InFlightUpdates(job) ==
  {o \in UpdatesById(sections, job.secs) :
     job.kind = "question" =>
       LET id == job.secs[job.si].entries[job.qi].id
       IN o.t = id \/ o.e = id}

DistinctOrders(entry) ==
  \A i, j \in 1..Len(entry.choices) :
    i # j => entry.choices[i].choiceOrder # entry.choices[j].choiceOrder

\* C30: the choices of every entry of the working tree have pairwise
\* distinct order letters, and so have the choices of an entry that an
\* add-choice or update-choice request of a save in flight is about.
C30_DistinctChoiceOrders ==
  /\ \A e \in AllEntries(sections) : DistinctOrders(e)
  /\ \A j \in 1..Len(jobs) : \A o \in jobs[j].ops :
       o.k \in {"addChoice", "updateChoice"} =>
         \A e \in AllEntries(jobs[j].secs) : e.id = o.e => DistinctOrders(e)

====
